---- MODULE Spec2Model ----
(***************************************************************************)
(* dllbridge32: a TCP server that loads one native library at startup and  *)
(* lets a client call its exported functions by name through a line        *)
(* protocol  "call <name> sig:<params>[(<conv>)] -> <ret> <arg>..."        *)
(*                                                                         *)
(* Text is modelled as a sequence of one-character strings, so that the    *)
(* splitting, trimming, searching and number parsing of src/src/main.rs    *)
(* are computed character by character as the code computes them.          *)
(***************************************************************************)
EXTENDS Integers, Sequences, FiniteSets, TLC

VARIABLES
    sigText,      \* parse_signature: the text handed to the parser
    sigResult,    \* parse_signature: its result, NoResult before the call
    cmdLine,      \* handle_client_command: the line handed to the dispatcher
    cmdOut,       \* handle_client_command: its outcome, NoResult before the call
    mainPc,       \* main: "start", "loaded", "listening" or "exited"
    libLoaded,    \* main: the Library value exists (lines 197-205)
    peer,         \* per connection: the client's end, "none", "open", "shut" or "closed"
    inbuf,        \* per connection: bytes the client sent that read_line has not consumed
    sent,         \* number of chunks the clients have sent so far
    wpc,          \* per connection: the worker, "none", "read", "handle", "done" or "panicked"
    line,         \* per connection: handle_client's `line` buffer
    reads,        \* per connection: the lines read_line returned (n > 0), in order
    resps,        \* per connection: the replies write_all wrote, in order
    lastOut       \* per connection: outcome of the latest handle_client_command

vars == <<sigText, sigResult, cmdLine, cmdOut, mainPc, libLoaded,
          peer, inbuf, sent, wpc, line, reads, resps, lastOut>>

parseVars == <<sigText, sigResult>>
cmdVars == <<cmdLine, cmdOut>>
serverVars == <<mainPc, libLoaded, peer, inbuf, sent, wpc, line, reads, resps, lastOut>>

NoResult == [kind |-> "None"]

-----------------------------------------------------------------------------
(* Characters and the str methods the code uses *)

NL == "\n"
NUL == "NUL"

\* char::is_whitespace, restricted to the characters of the model
IsWhitespace(c) == c \in {" ", "\t", NL, "\r"}

UpperChars == <<"A","B","C","D","E","F","G","H","I","J","K","L","M",
                "N","O","P","Q","R","S","T","U","V","W","X","Y","Z">>
LowerChars == <<"a","b","c","d","e","f","g","h","i","j","k","l","m",
                "n","o","p","q","r","s","t","u","v","w","x","y","z">>

\* str::to_lowercase on one character
LowerChar(c) ==
    IF \E i \in 1..Len(UpperChars) : UpperChars[i] = c
    THEN LowerChars[CHOOSE i \in 1..Len(UpperChars) : UpperChars[i] = c]
    ELSE c

\* str::to_lowercase
ToLowercase(s) == [i \in 1..Len(s) |-> LowerChar(s[i])]

\* s[from..to], 1-based and inclusive; empty when from > to
Slice(s, from, to) == IF from > to THEN <<>> ELSE SubSeq(s, from, to)

\* str::find(char): the 1-based position of the first c in s, 0 for None
Find(s, c) ==
    IF \E i \in 1..Len(s) : s[i] = c
    THEN CHOOSE i \in 1..Len(s) : s[i] = c /\ \A j \in 1..(i-1) : s[j] # c
    ELSE 0

\* s has pattern p at position i
MatchAt(s, p, i) ==
    /\ i >= 1
    /\ i + Len(p) - 1 <= Len(s)
    /\ \A k \in 1..Len(p) : s[i + k - 1] = p[k]

\* str::starts_with
StartsWith(s, p) == MatchAt(s, p, 1)

\* str::contains(&str)
Contains(s, p) == \E i \in 1..Len(s) : MatchAt(s, p, i)

\* str::trim
Trim(s) ==
    IF \A i \in 1..Len(s) : IsWhitespace(s[i])
    THEN <<>>
    ELSE LET first == CHOOSE i \in 1..Len(s) :
                          ~IsWhitespace(s[i]) /\ \A j \in 1..(i-1) : IsWhitespace(s[j])
             last  == CHOOSE i \in 1..Len(s) :
                          ~IsWhitespace(s[i]) /\ \A j \in (i+1)..Len(s) : IsWhitespace(s[j])
         IN SubSeq(s, first, last)

RECURSIVE SplitFrom(_, _, _, _, _)
\* str::split(&str): scan s from position i; cur is the part being collected,
\* acc the parts already closed. Matches are taken left to right, not overlapping.
SplitFrom(s, p, i, cur, acc) ==
    IF i > Len(s) THEN Append(acc, cur)
    ELSE IF MatchAt(s, p, i) THEN SplitFrom(s, p, i + Len(p), <<>>, Append(acc, cur))
    ELSE SplitFrom(s, p, i + 1, Append(cur, s[i]), acc)

\* str::split with a non-empty pattern: always at least one part
Split(s, p) == SplitFrom(s, p, 1, <<>>, <<>>)

RECURSIVE SplitWhitespaceFrom(_, _, _, _)
\* str::split_whitespace: maximal runs of non-whitespace characters
SplitWhitespaceFrom(s, i, cur, acc) ==
    IF i > Len(s) THEN (IF cur = <<>> THEN acc ELSE Append(acc, cur))
    ELSE IF IsWhitespace(s[i])
         THEN SplitWhitespaceFrom(s, i + 1, <<>>, IF cur = <<>> THEN acc ELSE Append(acc, cur))
         ELSE SplitWhitespaceFrom(s, i + 1, Append(cur, s[i]), acc)

SplitWhitespace(s) == SplitWhitespaceFrom(s, 1, <<>>, <<>>)

RECURSIVE TrimStartMatches(_, _)
\* str::trim_start_matches(&str): removes the prefix as often as it repeats
TrimStartMatches(s, p) ==
    IF Len(p) > 0 /\ StartsWith(s, p)
    THEN TrimStartMatches(SubSeq(s, Len(p) + 1, Len(s)), p)
    ELSE s

RECURSIVE Concat(_)
\* the concatenation of a sequence of texts
Concat(ss) == IF ss = <<>> THEN <<>> ELSE Head(ss) \o Concat(Tail(ss))

RECURSIVE Join(_, _)
\* the texts of ss with sep between neighbours
Join(ss, sep) ==
    IF ss = <<>> THEN <<>>
    ELSE IF Len(ss) = 1 THEN Head(ss)
    ELSE Head(ss) \o sep \o Join(Tail(ss), sep)

\* the sequences over S of length 0..n
SeqsUpTo(S, n) == UNION {[1..k -> S] : k \in 0..n}

-----------------------------------------------------------------------------
(* SupportedType and parse_signature *)

T_int   == <<"i","n","t">>
T_float == <<"f","l","o","a","t">>
T_char  == <<"c","h","a","r">>
T_void  == <<"v","o","i","d">>

Arrow == <<"-", ">">>

Ok(v) == [kind |-> "Ok", val |-> v]
Err(m, t) == [kind |-> "Err", msg |-> m, tok |-> t]
Panic == [kind |-> "Panic"]

MsgNoArrow == "Signature must contain '->'"
MsgNoParen == "Malformed signature: missing closing parenthesis"
MsgUnsupported == "Unsupported type: "

\* FromStr without to_lowercase: the vocabulary matched case-sensitively
FromStr_CaseSensitive(s) ==
    IF s = T_int THEN Ok("Int")
    ELSE IF s = T_float THEN Ok("Float")
    ELSE IF s = T_char THEN Ok("Char")
    ELSE IF s = T_void THEN Ok("Void")
    ELSE Err(MsgUnsupported, s)

\* impl FromStr for SupportedType
FromStr(s) ==
    LET l == ToLowercase(s) IN
    IF l = T_int THEN Ok("Int")
    ELSE IF l = T_float THEN Ok("Float")
    ELSE IF l = T_char THEN Ok("Char")
    ELSE IF l = T_void THEN Ok("Void")
    ELSE Err(MsgUnsupported, s)

RECURSIVE SelectNonBlank(_)
\* .filter(|s| !s.trim().is_empty())
SelectNonBlank(ts) ==
    IF ts = <<>> THEN <<>>
    ELSE IF Trim(Head(ts)) = <<>> THEN SelectNonBlank(Tail(ts))
    ELSE <<Head(ts)>> \o SelectNonBlank(Tail(ts))

RECURSIVE CollectTypes(_, _)
\* .map(|s| s.trim().parse()).collect::<Result<Vec<_>, String>>():
\* the types in order, or the first error
CollectTypes(ts, acc) ==
    IF ts = <<>> THEN Ok(acc)
    ELSE LET r == FromStr(Trim(Head(ts))) IN
         IF r.kind = "Err" THEN r ELSE CollectTypes(Tail(ts), Append(acc, r.val))

DefaultConvention == <<"c","d","e","c","l">>

\* lines 59-71: the parameter list and the return type
ParseTypes(params_part, ret_type_str, calling_convention) ==
    LET param_types == CollectTypes(SelectNonBlank(Split(params_part, <<",">>)), <<>>) IN
    IF param_types.kind = "Err" THEN param_types
    ELSE LET return_type == FromStr(Trim(ret_type_str)) IN
         IF return_type.kind = "Err" THEN return_type
         ELSE Ok([calling_convention |-> calling_convention,
                  param_types |-> param_types.val,
                  return_type |-> return_type.val])

\* SliceConvention with the slice taken from start instead of start + 1
SliceConvention_FromParen(params_with_conv, ret_type_str, start, end) ==
    IF end < start THEN Panic
    ELSE ParseTypes(Slice(params_with_conv, 1, start - 1), ret_type_str,
                    Slice(params_with_conv, start, end - 1))

\* lines 47-57: params_with_conv[start + 1..end] panics when the first ')'
\* lies before the first '(' (a slice whose start exceeds its end)
SliceConvention(params_with_conv, ret_type_str, start, end) ==
    IF end < start THEN Panic
    ELSE ParseTypes(Slice(params_with_conv, 1, start - 1), ret_type_str,
                    Slice(params_with_conv, start + 1, end - 1))

\* ArrowPartsOk accepting any text with at least one "->"
ArrowPartsOk_AtLeastTwo(parts) == Len(parts) >= 2

\* lines 39-43
ArrowPartsOk(parts) == Len(parts) = 2

parse_signature(signature) ==
    LET parts == Split(signature, Arrow) IN
    IF ~ArrowPartsOk(parts) THEN Err(MsgNoArrow, <<>>)
    ELSE LET params_with_conv == parts[1]
             ret_type_str == parts[2]
             start == Find(params_with_conv, "(")
             end == Find(params_with_conv, ")")
         IN IF start # 0
            THEN IF end # 0
                 THEN SliceConvention(params_with_conv, ret_type_str, start, end)
                 ELSE Err(MsgNoParen, <<>>)
            ELSE ParseTypes(params_with_conv, ret_type_str, DefaultConvention)

-----------------------------------------------------------------------------
(* 32-bit integers: str::parse::<i32> and i32::to_string *)

I32Max == 2147483647
I32Min == -2147483647 - 1

DigitChars == <<"0","1","2","3","4","5","6","7","8","9">>
IsDigit(c) == \E i \in 1..10 : DigitChars[i] = c
DigitVal(c) == (CHOOSE i \in 1..10 : DigitChars[i] = c) - 1

RECURSIVE AccumulatePos(_, _)
\* checked_mul(10) then checked_add(digit), digit by digit
AccumulatePos(ds, acc) ==
    IF ds = <<>> THEN Ok(acc)
    ELSE IF ~IsDigit(Head(ds)) THEN Err("InvalidDigit", <<>>)
    ELSE IF acc > I32Max \div 10 THEN Err("PosOverflow", <<>>)
    ELSE IF DigitVal(Head(ds)) > I32Max - acc * 10 THEN Err("PosOverflow", <<>>)
    ELSE AccumulatePos(Tail(ds), acc * 10 + DigitVal(Head(ds)))

RECURSIVE AccumulateNeg(_, _)
\* checked_mul(10) then checked_sub(digit), digit by digit
AccumulateNeg(ds, acc) ==
    IF ds = <<>> THEN Ok(acc)
    ELSE IF ~IsDigit(Head(ds)) THEN Err("InvalidDigit", <<>>)
    ELSE IF acc < -(I32Max \div 10) THEN Err("NegOverflow", <<>>)
    ELSE IF DigitVal(Head(ds)) - 1 > acc * 10 + I32Max THEN Err("NegOverflow", <<>>)
    ELSE AccumulateNeg(Tail(ds), acc * 10 - DigitVal(Head(ds)))

\* s.parse::<i32>(): an optional sign, then one or more ASCII digits, in range
ParseI32(s) ==
    IF s = <<>> THEN Err("Empty", <<>>)
    ELSE IF s = <<"+">> \/ s = <<"-">> THEN Err("InvalidDigit", <<>>)
    ELSE IF Head(s) = "-" THEN AccumulateNeg(Tail(s), 0)
    ELSE IF Head(s) = "+" THEN AccumulatePos(Tail(s), 0)
    ELSE AccumulatePos(s, 0)

RECURSIVE DigitsOf(_)
\* the decimal digits of n >= 0
DigitsOf(n) ==
    IF n < 10 THEN <<DigitChars[n + 1]>>
    ELSE Append(DigitsOf(n \div 10), DigitChars[(n % 10) + 1])

\* i32::to_string
ToDecimal(n) ==
    IF n >= 0 THEN DigitsOf(n)
    ELSE LET d == (10 - (n % 10)) % 10
             rest == (-(n + d)) \div 10
         IN <<"-">> \o (IF rest = 0 THEN <<>> ELSE DigitsOf(rest)) \o <<DigitChars[d + 1]>>

\* a + b in 32-bit two's complement
WrapAdd(a, b) ==
    IF a > 0 /\ b > I32Max - a THEN (a - I32Max - 1) + (b - I32Max - 1)
    ELSE IF a < 0 /\ b < I32Min - a THEN (a + I32Max + 1) + (b + I32Max + 1)
    ELSE a + b

RECURSIVE CollectI32(_, _)
\* args.iter().map(|s| s.parse::<i32>()).collect::<Result<Vec<i32>, _>>()
CollectI32(args, acc) ==
    IF args = <<>> THEN Ok(acc)
    ELSE LET r == ParseI32(Head(args)) IN
         IF r.kind = "Err" THEN r ELSE CollectI32(Tail(args), Append(acc, r.val))

-----------------------------------------------------------------------------
(* The loaded library: testlib exports helloworld() = 42 and add(a, b) = a + b *)

N_helloworld == <<"h","e","l","l","o","w","o","r","l","d">>
N_add == <<"a","d","d">>

Exports == {N_helloworld, N_add}

\* what a parameter that the caller did not pass may hold
GarbageInts == {0, -1}

\* the values the native function can return for the integers passed
NativeResults(name, ints) ==
    IF name = N_helloworld THEN {42}
    ELSE IF Len(ints) >= 2 THEN {WrapAdd(ints[1], ints[2])}
    ELSE IF Len(ints) = 1 THEN {WrapAdd(ints[1], g) : g \in GarbageInts}
    ELSE {WrapAdd(g, h) : g \in GarbageInts, h \in GarbageInts}

-----------------------------------------------------------------------------
(* dynamic_invoke, invoke_function, handle_client_command *)

MsgArgument == "Argument parsing error"
MsgInvalidName == "Invalid function name"
MsgNoSymbol == "undefined symbol: "
MsgNoSignature == "No signature string provided"
MsgMustCall == "Command must start with 'call'"
MsgMissingName == "Missing function name"
MsgNoArrowFound == "Malformed signature; no '->' found"

NoneMeta == [kind |-> "None"]
SomeMeta(v) == [kind |-> "Some", val |-> v]

\* the result of one call of invoke_function: its Result (or a panic), the stages
\* it went through in order, and the native calls it made
Outcome(res, stages, calls) == [res |-> res, stages |-> stages, calls |-> calls]

\* lines 80-81: all tokens are parsed before the call is issued
ArgsParsed(args) == CollectI32(args, <<>>)

\* lines 74-88
dynamic_invoke(name, args) ==
    LET parsed_args == ArgsParsed(args) IN
    IF parsed_args.kind = "Err"
    THEN {Outcome(Err(MsgArgument, <<>>), <<"invoke">>, <<>>)}
    ELSE {Outcome(Ok(ToDecimal(r)), <<"invoke", "native">>,
                  <<[name |-> name, args |-> parsed_args.val]>>)
          : r \in NativeResults(name, parsed_args.val)}

\* InvokeResolved comparing the argument count with the declared parameter count
InvokeResolved_CheckArity(name, metadata, args) ==
    IF metadata.kind = "Some"
    THEN LET signature == parse_signature(metadata.val) IN
         IF signature.kind = "Ok"
         THEN IF Len(signature.val.param_types) # Len(args)
              THEN {Outcome(Err("Argument count mismatch", <<>>), <<"resolve", "parse">>, <<>>)}
              ELSE {Outcome(o.res, <<"resolve", "parse">> \o o.stages, o.calls)
                    : o \in dynamic_invoke(name, args)}
         ELSE {Outcome(signature, <<"resolve", "parse">>, <<>>)}
    ELSE {Outcome(Err(MsgNoSignature, <<>>), <<"resolve">>, <<>>)}

\* lines 103-109, once the symbol has been found
InvokeResolved(name, metadata, args) ==
    IF metadata.kind = "Some"
    THEN LET signature == parse_signature(metadata.val) IN
         IF signature.kind = "Ok"
         THEN {Outcome(o.res, <<"resolve", "parse">> \o o.stages, o.calls)
               : o \in dynamic_invoke(name, args)}
         ELSE {Outcome(signature, <<"resolve", "parse">>, <<>>)}
    ELSE {Outcome(Err(MsgNoSignature, <<>>), <<"resolve">>, <<>>)}

\* lines 90-111
invoke_function(name, metadata, args) ==
    IF Find(name, NUL) # 0 THEN {Outcome(Err(MsgInvalidName, <<>>), <<>>, <<>>)}
    ELSE IF name \notin Exports THEN {Outcome(Err(MsgNoSymbol, name), <<"resolve">>, <<>>)}
    ELSE InvokeResolved(name, metadata, args)

T_call == <<"c","a","l","l">>
SigPrefix == <<"s","i","g",":">>

RECURSIVE ScanSignature_FoundAtEnd(_, _, _)
\* ScanSignature that takes the end of the line as the end of the signature
ScanSignature_FoundAtEnd(tokens, i, sig) ==
    IF i > Len(tokens) THEN [sig |-> sig, end_idx |-> Len(tokens), found |-> TRUE]
    ELSE LET piece == IF i = 3 THEN TrimStartMatches(tokens[i], SigPrefix) ELSE tokens[i]
             next == (IF sig # <<>> THEN sig \o <<" ">> ELSE sig) \o piece
         IN IF Contains(next, Arrow)
            THEN [sig |-> next, end_idx |-> i, found |-> TRUE]
            ELSE ScanSignature_FoundAtEnd(tokens, i + 1, next)

RECURSIVE ScanSignature(_, _, _)
\* lines 138-152: tokens from position i on are appended to sig until sig contains "->"
ScanSignature(tokens, i, sig) ==
    IF i > Len(tokens) THEN [sig |-> sig, end_idx |-> 3, found |-> FALSE]
    ELSE LET piece == IF i = 3 THEN TrimStartMatches(tokens[i], SigPrefix) ELSE tokens[i]
             next == (IF sig # <<>> THEN sig \o <<" ">> ELSE sig) \o piece
         IN IF Contains(next, Arrow)
            THEN [sig |-> next, end_idx |-> i, found |-> TRUE]
            ELSE ScanSignature(tokens, i + 1, next)

\* what handle_client_command hands to write_all, or the panic that ends it;
\* sig is the signature text built by lines 136-152 (if a block was opened) and
\* argv the argument tokens of line 164
Reply(isErr, msg, text, stages, calls, sig, argv) ==
    [kind |-> "Reply", err |-> isErr, msg |-> msg, text |-> text,
     stages |-> stages, calls |-> calls, sig |-> sig, argv |-> argv]
Panicked(stages, sig, argv) ==
    [kind |-> "Panic", err |-> FALSE, msg |-> "", text |-> <<>>,
     stages |-> stages, calls |-> <<>>, sig |-> sig, argv |-> argv]

\* lines 166-173
Respond(o, sig, argv) ==
    IF o.res.kind = "Ok" THEN Reply(FALSE, "", o.res.val, o.stages, o.calls, sig, argv)
    ELSE IF o.res.kind = "Err" THEN Reply(TRUE, o.res.msg, o.res.tok, o.stages, o.calls, sig, argv)
    ELSE Panicked(o.stages, sig, argv)

\* lines 129-173, with the function name present
CallFunction(tokens) ==
    LET function_name == tokens[2]
        opened == Len(tokens) >= 3 /\ StartsWith(tokens[3], SigPrefix)
        scan == ScanSignature(tokens, 3, <<>>)
    IN IF opened /\ ~scan.found
       THEN {Reply(TRUE, MsgNoArrowFound, <<>>, <<>>, <<>>, SomeMeta(scan.sig), <<>>)}
       ELSE LET metadata == IF opened THEN SomeMeta(scan.sig) ELSE NoneMeta
                args_start == IF opened THEN scan.end_idx + 1 ELSE 3
                args == Slice(tokens, args_start, Len(tokens))
            IN {Respond(o, metadata, args) : o \in invoke_function(function_name, metadata, args)}

\* handle_client_command without the comparison of the first token with "call"
handle_client_command_NoCallCheck(l) ==
    LET tokens == SplitWhitespace(Trim(l)) IN
    IF Len(tokens) < 2
    THEN {Reply(TRUE, MsgMissingName, <<>>, <<>>, <<>>, NoneMeta, <<>>)}
    ELSE CallFunction(tokens)

\* lines 113-174: the possible outcomes of one line
handle_client_command(l) ==
    LET tokens == SplitWhitespace(Trim(l)) IN
    IF Len(tokens) = 0 \/ tokens[1] # T_call
    THEN {Reply(TRUE, MsgMustCall, <<>>, <<>>, <<>>, NoneMeta, <<>>)}
    ELSE IF Len(tokens) < 2
    THEN {Reply(TRUE, MsgMissingName, <<>>, <<>>, <<>>, NoneMeta, <<>>)}
    ELSE CallFunction(tokens)

-----------------------------------------------------------------------------
(* Bounds and the inputs drawn within them *)

MaxPieces == 4     \* pieces in a free signature text
MaxParams == 2     \* parameter types in a well-formed signature text
MaxArgs == 2       \* argument tokens in a request line
MaxConns == 2      \* connections
MaxSends == 2      \* chunks sent by all clients together

Conns == 1..MaxConns

T_Void == <<"V","o","i","d">>
T_bool == <<"b","o","o","l">>
T_x == <<"x">>
C_stdcall == <<"s","t","d","c","a","l","l">>

TypeNames == {T_int, T_float, T_char, T_void}

SigPieces == {T_int, T_Void, T_bool, T_x, <<",">>, <<"(">>, <<")">>, Arrow, <<" ">>}

\* any concatenation of up to MaxPieces pieces
FreeTexts == {Concat(ps) : ps \in SeqsUpTo(SigPieces, MaxPieces)}

NoConv == <<"none">>
Convs == {C_stdcall, <<>>}

\* "T1,...,Tn(conv) -> Tr", the group "(conv)" left out for NoConv
FormText(ts, conv, tr) ==
    Join(ts, <<",">>)
      \o (IF conv = NoConv THEN <<>> ELSE <<"(">> \o conv \o <<")">>)
      \o <<" ">> \o Arrow \o <<" ">> \o tr

FormTexts ==
    {FormText(ts, conv, tr) :
        ts \in SeqsUpTo(TypeNames, MaxParams), conv \in Convs \cup {NoConv}, tr \in TypeNames}

\* each well-formed text with the parts it was built from
FormCases ==
    {[text |-> FormText(ts, conv, tr), ts |-> ts, conv |-> conv, tr |-> tr] :
        ts \in SeqsUpTo(TypeNames, MaxParams), conv \in Convs \cup {NoConv}, tr \in TypeNames}

\* texts with something written after the ")" of the group: "int(stdcall),float -> int"
TailTexts ==
    {head \o <<"(">> \o conv \o <<")">> \o tail \o <<" ">> \o Arrow \o <<" ">> \o tr :
        head \in {T_int, T_x, T_int \o <<",">> \o T_float},
        conv \in Convs,
        tail \in {<<>>, <<",">> \o T_float, T_x, <<")", "(">>},
        tr \in {T_int, T_x}}

SigTexts == FreeTexts \cup FormTexts \cup TailTexts

Sp == <<" ">>
Tok(a, b) == a \o b
N_nosuch == <<"n","o","s","u","c","h">>
N_nul == <<"a", NUL, "b">>
T_CALL == <<"C","A","L","L">>

CmdToks == {T_call, T_CALL}
NameToks == {N_helloworld, N_add, N_nosuch, N_nul}

\* the tokens between the function name and the arguments
SigForms ==
    { <<>>,
      <<SigPrefix \o T_void, Arrow, T_int>>,
      <<SigPrefix \o T_void, Arrow \o T_int>>,
      <<SigPrefix \o T_int \o <<",">> \o T_int, Arrow, T_int>>,
      <<SigPrefix \o T_int \o <<",">> \o T_int, Arrow \o T_int>>,
      <<SigPrefix \o T_int \o Arrow \o T_int>>,
      <<SigPrefix \o T_void>>,
      <<SigPrefix \o T_bool, Arrow \o T_int>>,
      <<SigPrefix \o <<")", "(">>, Arrow \o T_int>>,
      <<SigPrefix \o T_int \o <<"(">>, Arrow \o T_int>>,
      <<SigPrefix \o T_int \o <<"(">> \o C_stdcall \o <<")">>, Arrow \o T_int>>,
      <<SigPrefix \o T_int \o Arrow \o T_int \o Arrow \o T_int>>,
      <<SigPrefix \o SigPrefix \o T_void, Arrow \o T_int>>,
      <<SigPrefix, T_void, Arrow \o T_int>> }

A_3 == <<"3">>
A_4 == <<"4">>
A_x == <<"x">>
A_big == <<"2","1","4","7","4","8","3","6","4","8">>
A_max == <<"2","1","4","7","4","8","3","6","4","7">>

ArgToks == {A_3, A_4, A_x, A_big, A_max}

\* request lines as read_line returns them, the terminator included
WireLines ==
    {Join(<<cmd, name>> \o sig \o args, Sp) \o <<NL>> :
        cmd \in CmdToks, name \in NameToks, sig \in SigForms,
        args \in SeqsUpTo(ArgToks, MaxArgs)}
    \cup {<<NL>>, T_call \o <<NL>>}

L_hello == Join(<<T_call, N_helloworld, SigPrefix \o T_void, Arrow \o T_int>>, Sp)
L_add == Join(<<T_call, N_add, SigPrefix \o T_int \o <<",">> \o T_int, Arrow \o T_int, A_3, A_4>>, Sp)
L_nosuch == Join(<<T_call, N_nosuch, SigPrefix \o T_void, Arrow \o T_int>>, Sp)
L_parens == Join(<<T_call, N_helloworld, SigPrefix \o <<")", "(">>, Arrow \o T_int>>, Sp)

\* what a client sends in one piece: whole lines, and a line without its terminator
ServerChunks ==
    {L_hello \o <<NL>>, L_add \o <<NL>>, L_nosuch \o <<NL>>, L_parens \o <<NL>>, <<NL>>, L_hello}

-----------------------------------------------------------------------------
(* The signature parser applied to a text *)

InitServerIdle ==
    /\ mainPc = "start"
    /\ libLoaded = FALSE
    /\ peer = [c \in Conns |-> "none"]
    /\ inbuf = [c \in Conns |-> <<>>]
    /\ sent = 0
    /\ wpc = [c \in Conns |-> "none"]
    /\ line = [c \in Conns |-> <<>>]
    /\ reads = [c \in Conns |-> <<>>]
    /\ resps = [c \in Conns |-> <<>>]
    /\ lastOut = [c \in Conns |-> NoResult]

InitParse ==
    /\ sigText \in SigTexts
    /\ sigResult = NoResult
    /\ cmdLine = <<>>
    /\ cmdOut = NoResult
    /\ InitServerIdle

Parse ==
    /\ sigResult = NoResult
    /\ sigResult' = parse_signature(sigText)
    /\ UNCHANGED <<sigText, cmdVars, serverVars>>

NextParse == Parse

SpecParse == InitParse /\ [][NextParse]_vars

-----------------------------------------------------------------------------
(* The dispatcher applied to one line, on a stream that accepts the reply *)

InitLine ==
    /\ cmdLine \in WireLines
    /\ cmdOut = NoResult
    /\ sigText = <<>>
    /\ sigResult = NoResult
    /\ InitServerIdle

Dispatch ==
    /\ cmdOut = NoResult
    /\ \E o \in handle_client_command(cmdLine) : cmdOut' = o
    /\ UNCHANGED <<cmdLine, parseVars, serverVars>>

NextLine == Dispatch

SpecLine == InitLine /\ [][NextLine]_vars

-----------------------------------------------------------------------------
(* The server: main, the clients, and one worker per connection *)

Init ==
    /\ sigText = <<>>
    /\ sigResult = NoResult
    /\ cmdLine = <<>>
    /\ cmdOut = NoResult
    /\ InitServerIdle

\* lines 197-205
LoadLibrary ==
    /\ mainPc = "start"
    /\ mainPc' = "loaded"
    /\ libLoaded' = TRUE
    /\ UNCHANGED <<parseVars, cmdVars, peer, inbuf, sent, wpc, line, reads, resps, lastOut>>

\* lines 198-201: the library does not load, the process exits
LoadFails ==
    /\ mainPc = "start"
    /\ mainPc' = "exited"
    /\ UNCHANGED <<parseVars, cmdVars, libLoaded, peer, inbuf, sent, wpc, line, reads, resps, lastOut>>

\* lines 207-212
Bind ==
    /\ mainPc = "loaded"
    /\ mainPc' = "listening"
    /\ UNCHANGED <<parseVars, cmdVars, libLoaded, peer, inbuf, sent, wpc, line, reads, resps, lastOut>>

\* lines 208-211: the port cannot be bound, the process exits and the library goes with it
BindFails ==
    /\ mainPc = "loaded"
    /\ mainPc' = "exited"
    /\ libLoaded' = FALSE
    /\ UNCHANGED <<parseVars, cmdVars, peer, inbuf, sent, wpc, line, reads, resps, lastOut>>

\* lines 214-221: a client connects, the accept loop spawns its worker;
\* connections are numbered in the order incoming() yields them
Accept(c) ==
    /\ mainPc = "listening"
    /\ peer[c] = "none"
    /\ \A d \in 1..(c - 1) : peer[d] # "none"
    /\ peer' = [peer EXCEPT ![c] = "open"]
    /\ wpc' = [wpc EXCEPT ![c] = "read"]
    /\ UNCHANGED <<parseVars, cmdVars, mainPc, libLoaded, inbuf, sent, line, reads, resps, lastOut>>

\* the client writes a chunk to its socket
PeerSend(c, chunk) ==
    /\ peer[c] = "open"
    /\ sent < MaxSends
    /\ sent' = sent + 1
    /\ inbuf' = [inbuf EXCEPT ![c] = @ \o chunk]
    /\ UNCHANGED <<parseVars, cmdVars, mainPc, libLoaded, peer, wpc, line, reads, resps, lastOut>>

\* the client shuts down its sending side and keeps reading
PeerShutdown(c) ==
    /\ peer[c] = "open"
    /\ peer' = [peer EXCEPT ![c] = "shut"]
    /\ UNCHANGED <<parseVars, cmdVars, mainPc, libLoaded, inbuf, sent, wpc, line, reads, resps, lastOut>>

\* the client closes its socket
PeerClose(c) ==
    /\ peer[c] \in {"open", "shut"}
    /\ peer' = [peer EXCEPT ![c] = "closed"]
    /\ UNCHANGED <<parseVars, cmdVars, mainPc, libLoaded, inbuf, sent, wpc, line, reads, resps, lastOut>>

\* BufRead::read_line on buf when the peer will send no more: everything up to
\* and including the first terminator, or all that is left
ReadLineOf(buf) ==
    LET nl == Find(buf, NL) IN
    IF nl # 0 THEN Slice(buf, 1, nl) ELSE buf

\* ReadLine that also reads while the previous line is still being handled
ReadLine_Ahead(c) ==
    /\ wpc[c] \in {"read", "handle"}
    /\ Find(inbuf[c], NL) # 0 \/ peer[c] \in {"shut", "closed"}
    /\ LET got == ReadLineOf(inbuf[c]) IN
        /\ inbuf' = [inbuf EXCEPT ![c] = Slice(@, Len(got) + 1, Len(@))]
        /\ IF Len(got) = 0
           THEN /\ wpc' = [wpc EXCEPT ![c] = "done"]
                /\ UNCHANGED <<line, reads>>
           ELSE /\ wpc' = [wpc EXCEPT ![c] = "handle"]
                /\ line' = [line EXCEPT ![c] = @ \o got]
                /\ reads' = [reads EXCEPT ![c] = Append(@, got)]
    /\ UNCHANGED <<parseVars, cmdVars, mainPc, libLoaded, peer, sent, resps, lastOut>>

\* line 179: read_line returns once a terminator has arrived or the peer has
\* finished sending; lines 180-182: zero bytes end the loop
ReadLine(c) ==
    /\ wpc[c] = "read"
    /\ Find(inbuf[c], NL) # 0 \/ peer[c] \in {"shut", "closed"}
    /\ LET got == ReadLineOf(inbuf[c]) IN
        /\ inbuf' = [inbuf EXCEPT ![c] = Slice(@, Len(got) + 1, Len(@))]
        /\ IF Len(got) = 0
           THEN /\ wpc' = [wpc EXCEPT ![c] = "done"]
                /\ UNCHANGED <<line, reads>>
           ELSE /\ wpc' = [wpc EXCEPT ![c] = "handle"]
                /\ line' = [line EXCEPT ![c] = @ \o got]
                /\ reads' = [reads EXCEPT ![c] = Append(@, got)]
    /\ UNCHANGED <<parseVars, cmdVars, mainPc, libLoaded, peer, sent, resps, lastOut>>

\* ReadFails in which the worker that ends releases the library
ReadFails_ReleasesLibrary(c) ==
    /\ wpc[c] = "read"
    /\ peer[c] = "closed"
    /\ wpc' = [wpc EXCEPT ![c] = "done"]
    /\ libLoaded' = FALSE
    /\ UNCHANGED <<parseVars, cmdVars, mainPc, peer, inbuf, sent, line, reads, resps, lastOut>>

\* line 179: read_line fails on a connection the client has reset; `while let Ok`
\* ends the loop
ReadFails(c) ==
    /\ wpc[c] = "read"
    /\ peer[c] = "closed"
    /\ wpc' = [wpc EXCEPT ![c] = "done"]
    /\ UNCHANGED <<parseVars, cmdVars, mainPc, libLoaded, peer, inbuf, sent, line, reads, resps, lastOut>>

\* write_all succeeds while the client's socket exists; after its close a write
\* may still be buffered or may fail
WriteOutcomes(c) == IF peer[c] = "closed" THEN {TRUE, FALSE} ELSE {TRUE}

\* HandleLine that writes the response to the next connection's stream
HandleLine_CrossTalk(c) ==
    /\ wpc[c] = "handle"
    /\ \E o \in handle_client_command(line[c]) :
        /\ lastOut' = [lastOut EXCEPT ![c] = o]
        /\ \E written \in WriteOutcomes(c) :
            IF o.kind = "Reply" /\ written
            THEN /\ resps' = [resps EXCEPT ![(c % MaxConns) + 1] = Append(@, o)]
                 /\ line' = [line EXCEPT ![c] = <<>>]
                 /\ wpc' = [wpc EXCEPT ![c] = "read"]
            ELSE /\ wpc' = [wpc EXCEPT ![c] = "panicked"]
                 /\ UNCHANGED <<resps, line>>
    /\ UNCHANGED <<parseVars, cmdVars, mainPc, libLoaded, peer, inbuf, sent, reads>>

\* HandleLine without line.clear()
HandleLine_NoClear(c) ==
    /\ wpc[c] = "handle"
    /\ \E o \in handle_client_command(line[c]) :
        /\ lastOut' = [lastOut EXCEPT ![c] = o]
        /\ \E written \in WriteOutcomes(c) :
            IF o.kind = "Reply" /\ written
            THEN /\ resps' = [resps EXCEPT ![c] = Append(@, o)]
                 /\ wpc' = [wpc EXCEPT ![c] = "read"]
                 /\ UNCHANGED line
            ELSE /\ wpc' = [wpc EXCEPT ![c] = "panicked"]
                 /\ UNCHANGED <<resps, line>>
    /\ UNCHANGED <<parseVars, cmdVars, mainPc, libLoaded, peer, inbuf, sent, reads>>

\* HandleLine in which a panic of the worker aborts the process
HandleLine_PanicAborts(c) ==
    /\ wpc[c] = "handle"
    /\ \E o \in handle_client_command(line[c]) :
        /\ lastOut' = [lastOut EXCEPT ![c] = o]
        /\ \E written \in WriteOutcomes(c) :
            IF o.kind = "Reply" /\ written
            THEN /\ resps' = [resps EXCEPT ![c] = Append(@, o)]
                 /\ line' = [line EXCEPT ![c] = <<>>]
                 /\ wpc' = [wpc EXCEPT ![c] = "read"]
                 /\ UNCHANGED <<mainPc, libLoaded>>
            ELSE /\ wpc' = [wpc EXCEPT ![c] = "panicked"]
                 /\ mainPc' = "exited"
                 /\ libLoaded' = FALSE
                 /\ UNCHANGED <<resps, line>>
    /\ UNCHANGED <<parseVars, cmdVars, peer, inbuf, sent, reads>>

\* lines 183-184: handle_client_command, then line.clear(); a panic (the parser's,
\* or expect on a failed write) ends the worker thread
HandleLine(c) ==
    /\ wpc[c] = "handle"
    /\ \E o \in handle_client_command(line[c]) :
        /\ lastOut' = [lastOut EXCEPT ![c] = o]
        /\ \E written \in WriteOutcomes(c) :
            IF o.kind = "Reply" /\ written
            THEN /\ resps' = [resps EXCEPT ![c] = Append(@, o)]
                 /\ line' = [line EXCEPT ![c] = <<>>]
                 /\ wpc' = [wpc EXCEPT ![c] = "read"]
            ELSE /\ wpc' = [wpc EXCEPT ![c] = "panicked"]
                 /\ UNCHANGED <<resps, line>>
    /\ UNCHANGED <<parseVars, cmdVars, mainPc, libLoaded, peer, inbuf, sent, reads>>

Next ==
    \/ LoadLibrary
    \/ LoadFails
    \/ Bind
    \/ BindFails
    \/ \E c \in Conns : Accept(c)
    \/ \E c \in Conns, chunk \in ServerChunks : PeerSend(c, chunk)
    \/ \E c \in Conns : PeerShutdown(c)
    \/ \E c \in Conns : PeerClose(c)
    \/ \E c \in Conns : ReadLine(c)
    \/ \E c \in Conns : ReadFails(c)
    \/ \E c \in Conns : HandleLine(c)

Spec == Init /\ [][Next]_vars

-----------------------------------------------------------------------------
(* The parser and the dispatcher side by side: a run starts from a signature
   text or from a request line *)

InitSig == InitParse \/ InitLine

NextSig == Parse \/ Dispatch

SpecSig == InitSig /\ [][NextSig]_vars

-----------------------------------------------------------------------------
(* Vocabulary of the properties: what a text is, stated without the parser *)

\* the number of occurrences of "->" in s
CountArrows(s) == Cardinality({i \in 1..Len(s) : MatchAt(s, Arrow, i)})

\* the text before and after the only "->" of s
LeftPart(s) == Slice(s, 1, (CHOOSE i \in 1..Len(s) : MatchAt(s, Arrow, i)) - 1)
RightPart(s) == Slice(s, (CHOOSE i \in 1..Len(s) : MatchAt(s, Arrow, i)) + 2, Len(s))

\* the type a spelling stands for, "none" for every other text of the model
ExpectedType(t) ==
    IF t = T_int THEN "Int"
    ELSE IF t = T_float THEN "Float"
    ELSE IF t = T_char THEN "Char"
    ELSE IF t = T_void \/ t = T_Void THEN "Void"
    ELSE "none"

\* s has one "->" and its left part has no "(" or has its first ")" after its first "("
ReachesTypes(s) ==
    /\ CountArrows(s) = 1
    /\ \/ Find(LeftPart(s), "(") = 0
       \/ Find(LeftPart(s), ")") > Find(LeftPart(s), "(")

\* the parameter text of s: its left part up to the first "("
ParamsText(s) ==
    IF Find(LeftPart(s), "(") = 0 THEN LeftPart(s)
    ELSE Slice(LeftPart(s), 1, Find(LeftPart(s), "(") - 1)

RECURSIVE TrimmedNonBlank(_)
TrimmedNonBlank(ts) ==
    IF ts = <<>> THEN <<>>
    ELSE IF \A i \in 1..Len(Head(ts)) : IsWhitespace(Head(ts)[i]) THEN TrimmedNonBlank(Tail(ts))
    ELSE <<Trim(Head(ts))>> \o TrimmedNonBlank(Tail(ts))

\* the non-blank parameter tokens of s in order, then its trimmed return-type text
TypeTokens(s) == Append(TrimmedNonBlank(Split(ParamsText(s), <<",">>)), Trim(RightPart(s)))

\* the left part of s has a "(" with no ")" after it
UnmatchedParen(s) ==
    LET l == LeftPart(s) IN
    \E i \in 1..Len(l) : l[i] = "(" /\ \A j \in (i+1)..Len(l) : l[j] # ")"

\* argument tokens that are 32-bit integers, and their values
ValidArgToks == {A_3, A_4, A_max}
ArgValue(t) == IF t = A_3 THEN 3 ELSE IF t = A_4 THEN 4 ELSE I32Max

\* "call <name> sig:<params> -> int <arg>...", whitespace on both sides of "->"
DocumentedLine(name, params, args) ==
    Join(<<T_call, name, SigPrefix \o params, Arrow, T_int>> \o args, Sp) \o <<NL>>

P_intint == T_int \o <<",">> \o T_int

IsPartial(l) == l = <<>> \/ l[Len(l)] # NL

-----------------------------------------------------------------------------
(* The properties *)

\* C1: every line read on a connection whose client is still there gets exactly
\* one response and the worker goes on to read the next line: the worker never
\* panics, and whenever it is not inside the dispatcher it has written as many
\* responses as it has read lines.
C1_OneResponsePerLine ==
    \A c \in Conns :
        peer[c] \in {"open", "shut"} =>
            /\ wpc[c] # "panicked"
            /\ wpc[c] \in {"read", "done"} => Len(resps[c]) = Len(reads[c])
            /\ wpc[c] = "handle" => Len(resps[c]) + 1 = Len(reads[c])

\* C2: a request in the documented wire format (a space on both sides of "->")
\* that names an exported function and carries integer arguments calls that
\* function once with those integers in wire order and answers with the decimal
\* result: helloworld gives "42", add with 3 4 gives "7".
C2_DocumentedFormatCalls ==
    cmdOut # NoResult =>
        \A name \in Exports, params \in {T_void, P_intint},
           args \in SeqsUpTo(ValidArgToks, MaxArgs) :
            cmdLine = DocumentedLine(name, params, args) =>
                /\ cmdOut.kind = "Reply"
                /\ ~cmdOut.err
                /\ cmdOut.calls = <<[name |-> name,
                                     args |-> [i \in 1..Len(args) |-> ArgValue(args[i])]]>>
                /\ (name = N_helloworld /\ args = <<>>) => cmdOut.text = <<"4", "2">>
                /\ (name = N_add /\ args = <<A_3, A_4>>) => cmdOut.text = <<"7">>

\* C3: once the worker has taken a line that came without a terminator (the
\* client stopped sending after it), it has written no response for it, has run
\* no stage of the call for it, and has not panicked; and a worker that has left
\* its loop has never written more responses than it read lines.
C3_PartialLineIgnored ==
    \A c \in Conns :
        /\ (/\ Len(reads[c]) > 0
            /\ IsPartial(reads[c][Len(reads[c])])
            /\ wpc[c] # "handle")
           => /\ Len(resps[c]) < Len(reads[c])
              /\ lastOut[c] = NoResult \/ lastOut[c].stages = <<>>
              /\ wpc[c] # "panicked"
        /\ wpc[c] = "done" => Len(resps[c]) <= Len(reads[c])

\* C4: a request that reaches the call invoker with an argument token that is no
\* 32-bit integer makes no native call and is answered "ERR Argument parsing
\* error"; and "call add sig:int,int -> int 3 x" is such a request.
C4_BadArgumentAborts ==
    cmdOut # NoResult =>
        /\ (/\ \E i \in 1..Len(cmdOut.stages) : cmdOut.stages[i] = "invoke"
            /\ \E i \in 1..Len(cmdOut.argv) : cmdOut.argv[i] \notin ValidArgToks)
           => /\ cmdOut.calls = <<>>
              /\ cmdOut.err
              /\ cmdOut.msg = MsgArgument
        /\ cmdLine = DocumentedLine(N_add, P_intint, <<A_3, A_x>>)
           => /\ cmdOut.calls = <<>>
              /\ cmdOut.err
              /\ cmdOut.msg = MsgArgument

\* The first half of C4 alone, which the dispatcher satisfies: an argument token
\* that is no 32-bit integer reaching dynamic_invoke means no native call and the
\* argument-parsing error.
InvokerAbortsOnBadArgument ==
    (/\ cmdOut # NoResult
     /\ \E i \in 1..Len(cmdOut.stages) : cmdOut.stages[i] = "invoke"
     /\ \E i \in 1..Len(cmdOut.argv) : cmdOut.argv[i] \notin ValidArgToks)
    => /\ cmdOut.calls = <<>>
       /\ cmdOut.err
       /\ cmdOut.msg = MsgArgument

\* C5: a request "call <name> ..." none of whose tokens starts with "sig:" is
\* answered with the no-signature error and makes no native call, whatever the name.
C5_NoSigTokenNoSignatureError ==
    cmdOut # NoResult =>
        LET tokens == SplitWhitespace(cmdLine) IN
        (/\ Len(tokens) >= 2
         /\ tokens[1] = T_call
         /\ \A i \in 1..Len(tokens) : ~StartsWith(tokens[i], SigPrefix))
        => /\ cmdOut.err
           /\ cmdOut.msg = MsgNoSignature
           /\ cmdOut.calls = <<>>

\* C6: the signature is parsed before the symbol is looked up: a request whose
\* signature text does not parse and whose function name the library does not
\* export is answered with the parser's error, not with the resolution error.
C6_ParseErrorBeforeResolution ==
    cmdOut # NoResult =>
        LET tokens == SplitWhitespace(cmdLine) IN
        (/\ cmdOut.sig.kind = "Some"
         /\ Contains(cmdOut.sig.val, Arrow)
         /\ parse_signature(cmdOut.sig.val).kind = "Err"
         /\ tokens[2] \notin Exports
         /\ Find(tokens[2], NUL) = 0)
        => /\ cmdOut.err
           /\ cmdOut.msg = parse_signature(cmdOut.sig.val).msg
           /\ \A i \in 1..Len(cmdOut.stages) : cmdOut.stages[i] # "resolve"

\* C7: a signature text with no "->" or with more than one is rejected by
\* parse_signature with the format error, never parsed in part; and a request
\* whose signature text is such a text makes no native call.
C7_ExactlyOneArrow ==
    /\ (sigResult # NoResult /\ CountArrows(sigText) # 1)
       => sigResult = Err(MsgNoArrow, <<>>)
    /\ (/\ cmdOut # NoResult
        /\ cmdOut.sig.kind = "Some"
        /\ CountArrows(cmdOut.sig.val) # 1)
       => /\ cmdOut.calls = <<>>
          /\ cmdOut.kind = "Reply"
          /\ cmdOut.err

\* a text with two "->" has been rejected with the format error
C7_Witness ==
    /\ CountArrows(sigText) = 2
    /\ sigResult = Err(MsgNoArrow, <<>>)

\* C8: for a signature text with one "->" whose left part has a "(" with no ")"
\* after it, parse_signature returns the missing-parenthesis error as a value.
C8_UnmatchedParenIsError ==
    (/\ sigResult # NoResult
     /\ CountArrows(sigText) = 1
     /\ UnmatchedParen(sigText))
    => sigResult = Err(MsgNoParen, <<>>)

\* C9: "T1,...,Tn(conv) -> Tr" with every Ti and Tr one of int, float, char, void
\* parses to the convention conv, the parameter types T1..Tn in that order and
\* the return type Tr; without the "(conv)" group the convention is "cdecl".
C9_WellFormedParses ==
    (sigResult # NoResult /\ sigText \in FormTexts) =>
        \A c \in FormCases :
            sigText = c.text =>
                sigResult = Ok([calling_convention |->
                                    IF c.conv = NoConv THEN <<"c","d","e","c","l">> ELSE c.conv,
                                param_types |-> [i \in 1..Len(c.ts) |-> ExpectedType(c.ts[i])],
                                return_type |-> ExpectedType(c.tr)])

\* "int,float(stdcall) -> void" has been parsed
C9_Witness ==
    /\ sigText = FormText(<<T_int, T_float>>, C_stdcall, T_void)
    /\ sigResult.kind = "Ok"
    /\ sigResult.val.param_types = <<"Int", "Float">>
    /\ sigResult.val.calling_convention = C_stdcall

\* C10: when parse_signature reaches the types, every non-blank parameter token
\* and the trimmed return-type text (an empty one too) is matched without regard
\* to case against int, float, char, void: if all match, the parse yields exactly
\* their types; otherwise it fails with the unsupported-type error that names the
\* first token that does not match. No token is defaulted or skipped.
C10_TypesMatchedOrRejected ==
    (sigResult # NoResult /\ ReachesTypes(sigText)) =>
        LET toks == TypeTokens(sigText)
            bad == {i \in 1..Len(toks) : ExpectedType(toks[i]) = "none"}
        IN IF bad = {}
           THEN /\ sigResult.kind = "Ok"
                /\ sigResult.val.param_types =
                       [i \in 1..(Len(toks) - 1) |-> ExpectedType(toks[i])]
                /\ sigResult.val.return_type = ExpectedType(toks[Len(toks)])
           ELSE sigResult =
                    Err(MsgUnsupported, toks[CHOOSE i \in bad : \A j \in bad : i <= j])

\* "Void,bool->int" style: a mixed-case token was accepted and a later unknown
\* token was named in the error
C10_Witness ==
    /\ sigText = T_Void \o <<",">> \o T_bool \o Arrow
    /\ sigResult = Err(MsgUnsupported, T_bool)

\* the signature forms of the model whose text is a valid signature
ValidSigForms ==
    { <<SigPrefix \o T_void, Arrow \o T_int>>,
      <<SigPrefix \o T_int \o <<",">> \o T_int, Arrow \o T_int>>,
      <<SigPrefix \o T_int \o Arrow \o T_int>>,
      <<SigPrefix \o T_int \o <<"(">> \o C_stdcall \o <<")">>, Arrow \o T_int>> }

\* what a client sees of an outcome, and the native calls behind it
Visible(o) == [kind |-> o.kind, err |-> o.err, msg |-> o.msg, text |-> o.text, calls |-> o.calls]

\* C11: a line whose first token is not exactly "call" (a blank line too) is
\* answered "Command must start with 'call'", and the line "call" alone is
\* answered "Missing function name"; neither runs a stage of the call.
C11_CommandAndNameChecked ==
    cmdOut # NoResult =>
        LET tokens == SplitWhitespace(cmdLine) IN
        /\ (Len(tokens) = 0 \/ tokens[1] # T_call)
           => /\ Visible(cmdOut) = [kind |-> "Reply", err |-> TRUE, msg |-> MsgMustCall,
                                    text |-> <<>>, calls |-> <<>>]
              /\ cmdOut.stages = <<>>
        /\ tokens = <<T_call>>
           => /\ Visible(cmdOut) = [kind |-> "Reply", err |-> TRUE, msg |-> MsgMissingName,
                                    text |-> <<>>, calls |-> <<>>]
              /\ cmdOut.stages = <<>>

\* "CALL add ..." has been answered with the command error
C11_Witness ==
    /\ Len(SplitWhitespace(cmdLine)) >= 2
    /\ SplitWhitespace(cmdLine)[1] = T_CALL
    /\ SplitWhitespace(cmdLine)[2] = N_add
    /\ cmdOut # NoResult
    /\ cmdOut.msg = MsgMustCall

\* C12: when the token after the function name starts with "sig:" and neither it
\* nor a later token contains "->", the answer is the malformed-signature error
\* and no stage of the call runs.
C12_OpenBlockWithoutArrow ==
    cmdOut # NoResult =>
        LET tokens == SplitWhitespace(cmdLine) IN
        (/\ Len(tokens) >= 3
         /\ tokens[1] = T_call
         /\ StartsWith(tokens[3], SigPrefix)
         /\ \A i \in 3..Len(tokens) : ~Contains(tokens[i], Arrow))
        => /\ Visible(cmdOut) = [kind |-> "Reply", err |-> TRUE, msg |-> MsgNoArrowFound,
                                 text |-> <<>>, calls |-> <<>>]
           /\ cmdOut.stages = <<>>

\* "call add sig:void 3 x" has been answered with the malformed-signature error
C12_Witness ==
    /\ cmdLine = Join(<<T_call, N_add, SigPrefix \o T_void, A_3, A_x>>, Sp) \o <<NL>>
    /\ cmdOut # NoResult
    /\ cmdOut.msg = MsgNoArrowFound

\* C13: with a signature block opened and closed, the text handed to the parser
\* is the "sig:" token without its "sig:" prefix, then every following token up to
\* and including the first one that contains "->", joined by single spaces; the
\* argument tokens are all the tokens after that one, in order. Blanks around
\* the text, which the parser drops, are not compared.
C13_SignatureTextAndArguments ==
    cmdOut # NoResult =>
        LET tokens == SplitWhitespace(cmdLine) IN
        (/\ Len(tokens) >= 3
         /\ tokens[1] = T_call
         /\ StartsWith(tokens[3], SigPrefix)
         /\ \E i \in 3..Len(tokens) : Contains(tokens[i], Arrow))
        => LET k == CHOOSE i \in 3..Len(tokens) :
                        /\ Contains(tokens[i], Arrow)
                        /\ \A j \in 3..(i - 1) : ~Contains(tokens[j], Arrow)
           IN /\ cmdOut.sig.kind = "Some"
              /\ Trim(cmdOut.sig.val) =
                     Trim(Join(<<Slice(tokens[3], Len(SigPrefix) + 1, Len(tokens[3]))>>
                               \o Slice(tokens, 4, k), Sp))
              /\ cmdOut.argv = Slice(tokens, k + 1, Len(tokens))

\* C14: a request with a valid signature and integer arguments makes one native
\* call with exactly the wire arguments as 32-bit integers, whatever the signature
\* declares; and with any other valid signature in its place the same request
\* has the same native call and the same response.
C14_SignatureNeverCompared ==
    cmdOut # NoResult =>
        LET tokens == SplitWhitespace(cmdLine) IN
        \A f \in ValidSigForms :
            (/\ Len(tokens) >= 2 + Len(f)
             /\ tokens[1] = T_call
             /\ tokens[2] \in Exports
             /\ Slice(tokens, 3, 2 + Len(f)) = f)
            => LET args == Slice(tokens, 3 + Len(f), Len(tokens)) IN
               /\ (\A i \in 1..Len(args) : args[i] \in ValidArgToks)
                  => cmdOut.calls =
                         <<[name |-> tokens[2],
                            args |-> [i \in 1..Len(args) |-> ArgValue(args[i])]]>>
               /\ \A g \in ValidSigForms :
                      Visible(cmdOut) \in
                          {Visible(o) : o \in handle_client_command(
                               Join(<<T_call, tokens[2]>> \o g \o args, Sp) \o <<NL>>)}

\* helloworld declared with two int parameters was called with no argument
C14_Witness ==
    /\ cmdLine = Join(<<T_call, N_helloworld, SigPrefix \o P_intint, Arrow \o T_int>>, Sp) \o <<NL>>
    /\ cmdOut # NoResult
    /\ cmdOut.calls = <<[name |-> N_helloworld, args |-> <<>>]>>
    /\ cmdOut.text = <<"4", "2">>

\* the signature s with its left part cut at the first "("
WithoutGroup(s) == ParamsText(s) \o Arrow \o RightPart(s)

\* r is what parse_signature makes of the text base, the convention left aside
SameTypesAs(r, base) ==
    IF base.kind = "Ok"
    THEN /\ r.kind = "Ok"
         /\ r.val.param_types = base.val.param_types
         /\ r.val.return_type = base.val.return_type
    ELSE r = base

\* C20: when the left part of a signature has a "(" and a ")", the parameter
\* types are those of the text before the first "(" and nothing written from the
\* "(" on changes the result: it is that of the signature cut at the "(".
C20_TextAfterParenIgnored ==
    (/\ sigResult # NoResult
     /\ CountArrows(sigText) = 1
     /\ Find(LeftPart(sigText), "(") > 0
     /\ Find(LeftPart(sigText), ")") > 0)
    => SameTypesAs(sigResult, parse_signature(WithoutGroup(sigText)))

\* The same statement for a left part whose first ")" comes after its first "(":
\* the group holds the convention and the rest is ignored.
TextAfterGroupIgnored ==
    (/\ sigResult # NoResult
     /\ CountArrows(sigText) = 1
     /\ Find(LeftPart(sigText), "(") > 0
     /\ Find(LeftPart(sigText), ")") > Find(LeftPart(sigText), "("))
    => /\ SameTypesAs(sigResult, parse_signature(WithoutGroup(sigText)))
       /\ sigResult.kind = "Ok" =>
              sigResult.val.calling_convention =
                  Slice(LeftPart(sigText), Find(LeftPart(sigText), "(") + 1,
                        Find(LeftPart(sigText), ")") - 1)

\* "int(stdcall),float -> int" has been parsed to the parameter list [Int]
TextAfterGroupIgnored_Witness ==
    /\ sigText = T_int \o <<"(">> \o C_stdcall \o <<")", ",">> \o T_float
                   \o <<" ">> \o Arrow \o <<" ">> \o T_int
    /\ sigResult.kind = "Ok"
    /\ sigResult.val.param_types = <<"Int">>
    /\ sigResult.val.return_type = "Int"

\* the k-th response of connection c is an outcome of its k-th line alone
Answers(c, k) == resps[c][k] \in handle_client_command(reads[c][k])

\* everything of connection d is the same after the step
Untouched(d) ==
    /\ peer'[d] = peer[d]
    /\ inbuf'[d] = inbuf[d]
    /\ wpc'[d] = wpc[d]
    /\ line'[d] = line[d]
    /\ reads'[d] = reads[d]
    /\ resps'[d] = resps[d]
    /\ lastOut'[d] = lastOut[d]

\* connection c went from handling a line to st
Finishes(c, st) == wpc[c] = "handle" /\ wpc'[c] = st

\* C15: under every interleaving, each connection holds only responses to its
\* own lines, never more of them than lines it sent; and the step that answers
\* a line, with a result or with an error, writes one response to that
\* connection and changes nothing of any other connection.
C15_NoCrossTalk ==
    /\ [](\A c \in Conns :
            /\ Len(resps[c]) <= Len(reads[c])
            /\ \A k \in 1..Len(resps[c]) : Answers(c, k))
    /\ [][\A c \in Conns :
            resps'[c] # resps[c] =>
                /\ Finishes(c, "read")
                /\ \E o \in handle_client_command(line[c]) : resps'[c] = Append(resps[c], o)
                /\ \A d \in Conns \ {c} : Untouched(d)]_vars

\* two connections, one answered 42 and the other the resolution error
C15_Witness ==
    /\ reads[1] = <<L_hello \o <<NL>>>>
    /\ reads[2] = <<L_nosuch \o <<NL>>>>
    /\ Len(resps[1]) = 1 /\ resps[1][1].text = <<"4", "2">>
    /\ Len(resps[2]) = 1 /\ resps[2][1].err /\ resps[2][1].msg = MsgNoSymbol

\* C16: on one connection the k-th response answers the k-th line, a line is
\* read only when every earlier line has its response, and a line makes at most
\* one native call.
C16_SequentialPerConnection ==
    \A c \in Conns :
        /\ Len(reads[c]) \in {Len(resps[c]), Len(resps[c]) + 1}
        /\ Len(reads[c]) = Len(resps[c]) + 1 <=> wpc[c] \in {"handle", "panicked"}
        /\ \A k \in 1..Len(resps[c]) : Answers(c, k) /\ Len(resps[c][k].calls) <= 1
        /\ lastOut[c] # NoResult => Len(lastOut[c].calls) <= 1

\* both lines of a connection were in its buffer, and it has two responses in order
C16_Witness ==
    /\ reads[1] = <<L_add \o <<NL>>, L_hello \o <<NL>>>>
    /\ Len(resps[1]) = 2
    /\ resps[1][1].text = <<"7">>
    /\ resps[1][2].text = <<"4", "2">>

\* C17: the line buffer is empty whenever the worker is about to read and holds
\* exactly the line just read while it is handled, so each response is an
\* outcome of its own line alone; after the error for an absent name the process
\* is still serving and a following helloworld request is answered 42.
C17_NoStateAcrossLines ==
    \A c \in Conns :
        /\ wpc[c] \in {"read", "done"} => line[c] = <<>>
        /\ wpc[c] \in {"handle", "panicked"} => line[c] = reads[c][Len(reads[c])]
        /\ \A k \in 1..Len(resps[c]) :
            /\ Answers(c, k)
            /\ resps[c][k].msg = MsgNoSymbol => mainPc = "listening" /\ libLoaded
            /\ (k > 1 /\ resps[c][k - 1].msg = MsgNoSymbol /\ reads[c][k] = L_hello \o <<NL>>)
               => ~resps[c][k].err /\ resps[c][k].text = <<"4", "2">>

\* the resolution error, then 42, on the same connection
C17_Witness ==
    /\ reads[1] = <<L_nosuch \o <<NL>>, L_hello \o <<NL>>>>
    /\ Len(resps[1]) = 2
    /\ resps[1][1].msg = MsgNoSymbol
    /\ resps[1][2].text = <<"4", "2">>

\* C18: the library is loaded in the one step that leaves the start of main,
\* before the listener exists; it is loaded in every state from then to the exit
\* of the process, so whenever a worker exists, whatever it is doing or has done;
\* and it changes only by that load or by the exit.
C18_LibraryLoadedOnce ==
    /\ [](/\ mainPc = "start" => ~libLoaded
          /\ mainPc \in {"loaded", "listening"} => libLoaded
          /\ \A c \in Conns :
                wpc[c] # "none" \/ peer[c] # "none" => libLoaded /\ mainPc = "listening")
    /\ [][libLoaded' # libLoaded =>
            \/ mainPc = "start" /\ mainPc' = "loaded" /\ libLoaded'
            \/ mainPc' = "exited"]_vars

\* one worker has finished and another resolves and calls with the library loaded
C18_Witness ==
    /\ wpc[1] = "done"
    /\ Len(resps[2]) = 1
    /\ resps[2][1].calls # <<>>
    /\ libLoaded

\* C19: the step in which a worker panics changes nothing of the main thread,
\* of the library or of any other connection; and whenever a worker has
\* panicked the process is still listening with the library loaded, and the
\* responses on the other connections are outcomes of their own lines.
C19_PanicStaysLocal ==
    /\ [](\A c \in Conns :
            wpc[c] = "panicked" =>
                /\ mainPc = "listening"
                /\ libLoaded
                /\ \A d \in Conns \ {c} : \A k \in 1..Len(resps[d]) : Answers(d, k))
    /\ [][\A c \in Conns :
            Finishes(c, "panicked") =>
                /\ mainPc' = mainPc
                /\ libLoaded' = libLoaded
                /\ \A d \in Conns \ {c} : Untouched(d)]_vars

\* the first worker died in the parser, the second has answered 42
C19_Witness ==
    /\ wpc[1] = "panicked"
    /\ lastOut[1].kind = "Panic"
    /\ Len(resps[2]) = 1
    /\ resps[2][1].text = <<"4", "2">>

====
